---- MODULE Spec2Model ----
(***************************************************************************)
(* Model of src/indexer.py: class Indexer, a thin wrapper of a whoosh      *)
(* index holding Message documents (content, url, chat_id, post_time).     *)
(*                                                                         *)
(* The committed index is the sequence `docs` of stored documents in       *)
(* document-number order.  One action per public method of Indexer.  The  *)
(* whoosh calls the methods make (writer.add_document, update_document,    *)
(* delete_by_term, searcher.document, searcher.search_page, ResultsPage)   *)
(* are operators computing what those calls do on the sequence.            *)
(*                                                                         *)
(* Spec      : one caller, every call runs to completion before the next.  *)
(* SpecConc  : a reader call (search / retrieve_random_document) split at  *)
(*             the point where its searcher is opened, interleaved with    *)
(*             commits of writer sessions.                                 *)
(* SpecWrite : write calls of several callers split at the points where    *)
(*             they read, open their writer session and leave it.          *)
(***************************************************************************)
EXTENDS Integers, Sequences, FiniteSets, TLC

(* ------------------------------ bounds -------------------------------- *)
MaxDocs == 2        \* cap on the number of stored documents (Spec)
MaxConcDocs == 2    \* cap on the number of stored documents (SpecConc)
MaxWriteDocs == 2   \* cap on the number of stored documents (SpecWrite)
MaxBatch == 1       \* cap on the documents pending in a caller's writer

(* ------------------------------ inputs -------------------------------- *)
Urls == {"u1", "u2"}
Contents == { <<"hello", "world">>, <<"hello", "again">> }
QueryStrings == {"hello", "world", "the"}
PageLens == {1, 2, 10}
PageNums == {1, 2, 3}

\* (page_len, page_num) pairs that are not a page: a zero or negative page
\* length or page number.
InvalidPages == { <<0, 1>>, <<-1, 2>>, <<1, 0>>, <<-1, -1>> }

\* Optional[T]: None is the empty sequence, a present value x is <<x>>.
None == << >>
Some(x) == <<x>>

\* in_chats: Optional[list[int]]
InChats == {None, Some(<< >>), Some(<<1>>)}

(* ------------------------------ Message ------------------------------- *)
\* class Message: the four fields set by __init__.
Message(content, url, chat_id, post_time) ==
    [content |-> content, url |-> url, chat_id |-> chat_id, post_time |-> post_time]

\* The (url, chat_id, post_time) of the messages callers add: two urls, one
\* of them posted twice (in different chats at different times), two posts
\* at the same time.
Origins == { <<"u1", 1, 1>>, <<"u2", 2, 2>>, <<"u1", 2, 2>> }

Messages == { Message(c, o[1], o[2], o[3]) : c \in Contents, o \in Origins }

\* Message.as_dict: the dict of the four fields handed to the writer.
as_dict(message) ==
    [content |-> message.content, url |-> message.url,
     chat_id |-> message.chat_id, post_time |-> message.post_time]

\* Message.schema: the whoosh field type of every field.  TEXT, ID and
\* DATETIME fields are indexed (they have postings); a STORED field is only
\* kept with the document and has no postings.
schema ==
    [content |-> "TEXT", url |-> "ID", chat_id |-> "STORED", post_time |-> "DATETIME"]

\* The fields the schema declares unique=True.
UniqueFields == {"url"}

(* --------------------------- text analysis ---------------------------- *)
\* ChineseAnalyzer: tokenizer | lowercase | stop filter | stemmer.  A text is
\* a sequence of words; the analyzer drops the stop words.
StopWords == {"the", "a", "of"}

Analyze(text) == SelectSeq(text, LAMBDA w : w \notin StopWords)

Range(s) == { s[i] : i \in 1..Len(s) }

\* QueryParser('content', schema).parse(q_str): the terms of the query on the
\* content field; a query whose words are all removed by the analyzer is the
\* null query, which matches nothing.
Parse(q_str) == Analyze(<<q_str>>)

(* ------------------------ whoosh term matching ------------------------ *)
\* Term(fieldname, value) against one stored document: only an indexed field
\* has postings, so a Term on a STORED field matches no document.
TermMatches(fieldname, value, doc) ==
    /\ schema[fieldname] # "STORED"
    /\ doc[fieldname] = value

\* The parsed content query against one stored document.
QueryMatches(q, doc) ==
    /\ q # << >>
    /\ \A i \in 1..Len(q) : q[i] \in Range(Analyze(doc.content))

(* ----------------------- whoosh writer sessions ----------------------- *)
\* writer.add_document(**fields): appends a document; unique fields are NOT
\* consulted by add_document.
writer_add_document(d, fields) == Append(d, fields)

\* (mutant) deletes only the first matching document.
writer_delete_first(d, fieldname, value) ==
    LET hit == { i \in 1..Len(d) : TermMatches(fieldname, value, d[i]) }
    IN  IF hit = {} THEN d
        ELSE LET k == CHOOSE i \in hit : \A j \in hit : i <= j
             IN  SubSeq(d, 1, k - 1) \o SubSeq(d, k + 1, Len(d))

\* writer.delete_by_term(fieldname, value): deletes every matching document.
writer_delete_by_term(d, fieldname, value) ==
    SelectSeq(d, LAMBDA doc : ~TermMatches(fieldname, value, doc))

\* (mutant) adds the new document without deleting the old ones.
writer_update_keep_old(d, fields) == writer_add_document(d, fields)

\* writer.update_document(**fields): deletes every document that carries the
\* same value in a unique field, then adds the new document.
writer_update_document(d, fields) ==
    LET same(doc) == \E f \in UniqueFields : TermMatches(f, fields[f], doc)
    IN  writer_add_document(SelectSeq(d, LAMBDA doc : ~same(doc)), fields)

\* searcher.document(url=url): the first document carrying the url, or None.
searcher_document(d, url) ==
    LET found == SelectSeq(d, LAMBDA doc : TermMatches("url", url, doc))
    IN  IF found = << >> THEN None ELSE Some(Head(found))

\* list(searcher.documents()): all stored documents.
searcher_documents(d) == d

(* ------------------------- whoosh search_page ------------------------- *)
Min(a, b) == IF a < b THEN a ELSE b
Max(a, b) == IF a > b THEN a ELSE b

\* Python list slicing s[a:b], negative indices counted from the end.
PySlice(s, a, b) ==
    LET n == Len(s)
        norm(i) == IF i < 0 THEN Max(n + i, 0) ELSE Min(i, n)
    IN  SubSeq(s, norm(a) + 1, norm(b))

\* sortedby='post_time', reverse=True: documents by post_time descending,
\* documents with equal post_time in document-number order.
\* (InsertByPostTimeAscending is the mutant with reverse=False.)
InsertByPostTimeAscending(s, doc) ==
    LET before == SelectSeq(s, LAMBDA x : x.post_time <= doc.post_time)
        after == SelectSeq(s, LAMBDA x : x.post_time > doc.post_time)
    IN  before \o <<doc>> \o after

InsertByPostTime(s, doc) ==
    LET before == SelectSeq(s, LAMBDA x : x.post_time >= doc.post_time)
        after == SelectSeq(s, LAMBDA x : x.post_time < doc.post_time)
    IN  before \o <<doc>> \o after

RECURSIVE SortedByPostTimeReverse(_)
SortedByPostTimeReverse(d) ==
    IF d = << >> THEN << >>
    ELSE InsertByPostTime(SortedByPostTimeReverse(SubSeq(d, 1, Len(d) - 1)), d[Len(d)])

\* Python truthiness of in_chats (`if in_chats:`): None and [] are false.
Truthy(in_chats) == in_chats # None /\ in_chats[1] # << >>

\* The combined query And(q, Or(Term('chat_id', c) for c in in_chats)), or
\* q alone when in_chats is falsy, against one stored document.
CombinedMatches(q, in_chats, doc) ==
    /\ QueryMatches(q, doc)
    /\ Truthy(in_chats) =>
          \E i \in 1..Len(in_chats[1]) : TermMatches("chat_id", in_chats[1][i], doc)

\* The result of a call: err is "ok" or the name of the exception raised.
Ret(err, hits, is_last_page, total, msg) ==
    [err |-> err, hits |-> hits, is_last_page |-> is_last_page, total |-> total, msg |-> msg]

Ok == Ret("ok", << >>, FALSE, 0, None)
Raise(exc) == Ret(exc, << >>, FALSE, 0, None)

\* highlighter.highlight_hit(msg, 'content'): the words of the content that
\* are terms of the query.
Highlight(q, doc) == SelectSeq(doc.content, LAMBDA w : w \in Range(q))

\* SearchHit(Message(**msg), highlighted)
SearchHit(q, doc) ==
    [msg |-> Message(doc.content, doc.url, doc.chat_id, doc.post_time),
     highlighted |-> Highlight(q, doc)]

\* (mutant) the requested page number is used as it is.
UnclampedPage(pagecount, page_num) == page_num

\* ResultsPage: pagenum = min(pagecount, pagenum), a page past the last one
\* is the last one.
ClampedPage(pagecount, page_num) == Min(pagecount, page_num)

\* whoosh ResultsPage(results, pagenum, pagelen) over the sorted matches:
\*   total = len(results); pagecount = ceil(total / pagelen)
\*   pagenum = min(pagecount, pagenum); offset = (pagenum - 1) * pagelen
\*   if offset + pagelen > total: pagelen = total - offset
\*   hits = results[offset : offset + pagelen]
\*   is_last_page = pagecount == 0 or pagenum == pagecount
\* results holds the first pagenum * pagelen matches (the search limit).
ResultsPage(q, matches, page_num, page_len) ==
    LET total == Len(matches)
        top_n == SubSeq(matches, 1, Min(total, page_num * page_len))
        pagecount == (total + page_len - 1) \div page_len
        pagenum == ClampedPage(pagecount, page_num)
        offset == (pagenum - 1) * page_len
        pagelen == IF offset + page_len > total THEN total - offset ELSE page_len
        page == PySlice(top_n, offset, offset + pagelen)
    IN  Ret("ok",
            [i \in 1..Len(page) |-> SearchHit(q, page[i])],
            pagecount = 0 \/ pagenum = pagecount,
            total,
            None)

\* A Term whose value is an int on a field without postings: whoosh either
\* raises while it encodes the value (FieldType.to_bytes utf-8-encodes what
\* it is given) or finds no postings for it.  Both outcomes are kept.
TermOutcomes(in_chats) ==
    IF Truthy(in_chats) /\ schema["chat_id"] = "STORED"
    THEN {"TypeError", "ok"}
    ELSE {"ok"}

\* (mutant) only the search limit is checked.
LimitOnly(page_len, page_num) == page_num * page_len < 1

\* searcher.search_page raises ValueError for pagenum < 1, and the search it
\* runs with limit = pagenum * pagelen raises ValueError for limit < 1.
InvalidPage(page_len, page_num) == page_num < 1 \/ page_num * page_len < 1

\* Indexer.search on the searcher's view d of the index: the set of results
\* the call can produce.
SearchOutcomes(d, q_str, in_chats, page_len, page_num) ==
    LET q == Parse(q_str)
        matches == SortedByPostTimeReverse(
                       SelectSeq(d, LAMBDA doc : CombinedMatches(q, in_chats, doc)))
    IN  IF InvalidPage(page_len, page_num)
        THEN {Raise("ValueError")}
        ELSE { IF e = "ok" THEN ResultsPage(q, matches, page_num, page_len) ELSE Raise(e)
               : e \in TermOutcomes(in_chats) }

\* Indexer.retrieve_random_document on the searcher's view d: random.choice
\* of the stored documents; an empty list raises IndexError.
SampleOutcomes(d) ==
    IF searcher_documents(d) = << >>
    THEN {Raise("IndexError")}
    ELSE { Ret("ok", << >>, FALSE, 0,
               Some(Message(d[i].content, d[i].url, d[i].chat_id, d[i].post_time)))
           : i \in 1..Len(d) }

\* (mutant) the searcher reads whatever is committed at the moment it reads.
LiveView(s, d) == d

\* What an open searcher reads: the segments that were committed when it was
\* opened (s), whatever has been committed since (d).
ReaderView(s, d) == s

\* create_in(index_dir, schema, index_name): a new empty index.
create_in == << >>

\* (mutant) opens the index the directory holds, as __init__ does.
reopen(d) == d

\* _clear: rmtree, mkdir, create_in, whatever the index d held.
clear_index(d) == create_in

\* exists_in(index_dir, index_name) and open_dir(index_dir, index_name) on
\* what the location holds: None when it holds no index.
exists_in(disk) == disk # None
open_dir(disk) == disk[1]

\* (mutant) the constructor always creates the index.
always_create(disk, from_scratch) == create_in

\* Indexer.__init__: self.ix after construction on a location holding disk:
\* from_scratch clears first; then an existing index is opened, a missing
\* one created.
open_or_create(disk, from_scratch) ==
    LET stored == IF exists_in(disk) THEN open_dir(disk) ELSE << >>
        held == IF from_scratch THEN Some(clear_index(stored)) ELSE disk
    IN  IF exists_in(held) THEN open_dir(held) ELSE create_in

(* ------------------------------- state -------------------------------- *)
VARIABLES
    docs,   \* self.ix: the committed documents, in document-number order
    call,   \* the call last started: [op, arg]
    ret,    \* what the last finished call returned or raised
    pre,    \* the committed documents when the call in `call` started
    rpc,    \* position of the reader call: "idle" or "open" (searcher open)
    snap,   \* the committed documents when the open searcher was opened
    raced,  \* history: a writer session committed while the searcher of the
            \* reader call in `call` was open
    sessions,   \* the callers that hold an open writer of self.ix
    upd,    \* the update() call in progress: position and local variables
    oth,    \* another caller's delete() or add_document() call in progress
    batch   \* the documents pending in a writer a caller opened itself to
            \* pass to add_document(message, writer); None when it has none

vars == <<docs, call, ret, pre, rpc, snap, raced, sessions, upd, oth, batch>>

reader == <<rpc, snap, raced>>

writers == <<sessions, upd, oth, batch>>

\* No update() call in progress, no other write call in progress.
IdleUpd == [pc |-> "idle", content |-> << >>, url |-> "", msg_dict |-> None, existed |-> FALSE]
IdleOth == [pc |-> "idle", op |-> "", url |-> "", message |-> None]

Call(op, arg) == [op |-> op, arg |-> arg]

\* Indexer(index_dir, index_name) on a location that holds no index.
Init ==
    /\ docs = open_or_create(None, FALSE)
    /\ call = Call("__init__", FALSE)
    /\ ret = Ok
    /\ pre = << >>
    /\ rpc = "idle"
    /\ snap = << >>
    /\ raced = FALSE
    /\ sessions = {}
    /\ upd = IdleUpd
    /\ oth = IdleOth
    /\ batch = None

(* ----------------------- Spec: one call at a time --------------------- *)
\* add_document(message) with writer = None: own writer session, committed
\* when the with-block exits.
add_document(message) ==
    /\ Len(docs) < MaxDocs
    /\ docs' = writer_add_document(docs, as_dict(message))
    /\ call' = Call("add_document", message)
    /\ ret' = Ok
    /\ pre' = docs
    /\ UNCHANGED <<reader, writers>>

\* The document update() writes: the stored fields with content replaced.
UpdatedDoc(msg_dict, content) == [msg_dict EXCEPT !.content = content]

\* (mutant) the write session keeps nothing but the rewritten document.
UpdateWriteAlone(d, msg_dict, content) ==
    IF msg_dict = None THEN d
    ELSE << UpdatedDoc(msg_dict[1], content) >>

\* The with-block of update() on the committed index d, msg_dict having been
\* read through a searcher before the writer was opened.
UpdateWrite(d, msg_dict, content) ==
    IF msg_dict = None THEN d
    ELSE writer_update_document(d, UpdatedDoc(msg_dict[1], content))

\* (mutant) a missing document is written anew with the content.
UpdateDocsUpsert(d, content, url) ==
    LET msg_dict == searcher_document(d, url)
    IN  IF msg_dict = None
        THEN writer_update_document(d, Message(content, url, 0, 0))
        ELSE writer_update_document(d, UpdatedDoc(msg_dict[1], content))

\* The index after update(content, url) on index d: msg_dict is read through
\* a searcher; None makes `msg_dict['content'] = content` raise TypeError
\* inside the with-block, whose exit then cancels the writer session.
UpdateDocs(d, content, url) == UpdateWrite(d, searcher_document(d, url), content)

UpdateRet(d, url) ==
    IF searcher_document(d, url) = None THEN Raise("TypeError") ELSE Ok

update(content, url) ==
    /\ docs' = UpdateDocs(docs, content, url)
    /\ call' = Call("update", [content |-> content, url |-> url])
    /\ ret' = UpdateRet(docs, url)
    /\ pre' = docs
    /\ UNCHANGED <<reader, writers>>

delete(url) ==
    /\ docs' = writer_delete_by_term(docs, "url", url)
    /\ call' = Call("delete", url)
    /\ ret' = Ok
    /\ pre' = docs
    /\ UNCHANGED <<reader, writers>>

clear ==
    /\ docs' = clear_index(docs)
    /\ call' = Call("clear", << >>)
    /\ ret' = Ok
    /\ pre' = docs
    /\ UNCHANGED <<reader, writers>>

\* Indexer(index_dir, index_name, from_scratch) constructed again on the
\* location that holds the index (a restart of the process).
__init__(from_scratch) ==
    /\ docs' = open_or_create(Some(docs), from_scratch)
    /\ call' = Call("__init__", from_scratch)
    /\ ret' = Ok
    /\ pre' = docs
    /\ UNCHANGED <<reader, writers>>

SearchArg(q_str, in_chats, page_len, page_num) ==
    [q_str |-> q_str, in_chats |-> in_chats, page_len |-> page_len, page_num |-> page_num]

search(q_str, in_chats, page_len, page_num) ==
    /\ ret' \in SearchOutcomes(ReaderView(docs, docs), q_str, in_chats, page_len, page_num)
    /\ call' = Call("search", SearchArg(q_str, in_chats, page_len, page_num))
    /\ pre' = docs
    /\ UNCHANGED <<docs, reader, writers>>

retrieve_random_document ==
    /\ ret' \in SampleOutcomes(ReaderView(docs, docs))
    /\ call' = Call("retrieve_random_document", << >>)
    /\ pre' = docs
    /\ UNCHANGED <<docs, reader, writers>>

Next ==
    \/ \E message \in Messages : add_document(message)
    \/ \E content \in Contents, url \in Urls : update(content, url)
    \/ \E url \in Urls : delete(url)
    \/ clear
    \/ \E q_str \in QueryStrings, in_chats \in InChats,
          page_len \in PageLens, page_num \in PageNums :
            search(q_str, in_chats, page_len, page_num)
    \/ \E in_chats \in InChats, page \in InvalidPages :
            search("hello", in_chats, page[1], page[2])
    \/ retrieve_random_document
    \/ \E from_scratch \in BOOLEAN : __init__(from_scratch)

Spec == Init /\ [][Next]_vars

(* ------------- SpecConc: a reader call among writer commits ----------- *)
\* The example messages of the ordering scenario; the messages added while a
\* reader call runs.
MsgA == Message(<<"hello", "world">>, "u1", 1, 1)
MsgB == Message(<<"hello", "again">>, "u2", 2, 2)
ConcMessages == {MsgA, MsgB}
ConcQueryStrings == {"hello", "world"}
ConcPageLens == {1}
ConcPageNums == {1, 2}

\* search(): `with self.ix.searcher() as searcher` opens the searcher.
search_open(q_str, in_chats, page_len, page_num) ==
    /\ rpc = "idle"
    /\ rpc' = "open"
    /\ snap' = docs
    /\ raced' = FALSE
    /\ call' = Call("search", SearchArg(q_str, in_chats, page_len, page_num))
    /\ pre' = docs
    /\ UNCHANGED <<docs, ret, writers>>

\* search(): search_page, the hits, is_last_page() and total are all read
\* through the open searcher; the with-block then closes it.
search_return ==
    /\ rpc = "open" /\ call.op = "search"
    /\ ret' \in SearchOutcomes(ReaderView(snap, docs), call.arg.q_str, call.arg.in_chats,
                                call.arg.page_len, call.arg.page_num)
    /\ rpc' = "idle"
    /\ snap' = << >>
    /\ UNCHANGED <<docs, call, pre, raced, writers>>

\* retrieve_random_document(): opens the searcher.
sample_open ==
    /\ rpc = "idle"
    /\ rpc' = "open"
    /\ snap' = docs
    /\ raced' = FALSE
    /\ call' = Call("retrieve_random_document", << >>)
    /\ pre' = docs
    /\ UNCHANGED <<docs, ret, writers>>

\* retrieve_random_document(): random.choice(list(searcher.documents())).
sample_return ==
    /\ rpc = "open" /\ call.op = "retrieve_random_document"
    /\ ret' \in SampleOutcomes(ReaderView(snap, docs))
    /\ rpc' = "idle"
    /\ snap' = << >>
    /\ UNCHANGED <<docs, call, pre, raced, writers>>

\* A writer session of another caller commits the index d.  Writers take the
\* index's write lock only; an open searcher holds no lock.
Commit(d) ==
    /\ docs' = d
    /\ raced' = (raced \/ (rpc = "open" /\ d # docs))
    /\ UNCHANGED <<call, ret, pre, rpc, snap, writers>>

commit_add_document(message) ==
    /\ Len(docs) < MaxConcDocs
    /\ Commit(writer_add_document(docs, as_dict(message)))

commit_update(content, url) == Commit(UpdateDocs(docs, content, url))

commit_delete(url) == Commit(writer_delete_by_term(docs, "url", url))

NextConc ==
    \/ \E q_str \in ConcQueryStrings, page_len \in ConcPageLens, page_num \in ConcPageNums :
            search_open(q_str, None, page_len, page_num)
    \/ search_return
    \/ sample_open
    \/ sample_return
    \/ \E message \in ConcMessages : commit_add_document(message)
    \/ \E content \in Contents, url \in Urls : commit_update(content, url)
    \/ \E url \in Urls : commit_delete(url)

SpecConc == Init /\ [][NextConc]_vars

(* ------------- SpecWrite: write calls of several callers -------------- *)
\* (mutant) a writer is handed out whoever holds one.
NoWriteLock(ss) == TRUE

\* self.ix.writer(): the writer takes the index's write lock without
\* waiting; it raises LockError when another writer holds it.
CanOpenWriter(ss) == ss = {}

\* A finished write call: the writer session it used and whether the call
\* opened that session itself.
WriteArg(session, own) == [session |-> session, own |-> own]

\* update(): `with self.ix.searcher()`: msg_dict = searcher.document(url=url).
update_read(content, url) ==
    /\ upd.pc \in {"idle", "done"}
    /\ upd' = [pc |-> "read", content |-> content, url |-> url,
               msg_dict |-> searcher_document(docs, url), existed |-> FALSE]
    /\ pre' = docs
    /\ UNCHANGED <<docs, call, ret, reader, sessions, oth, batch>>

\* update(): `with self.ix.writer() as writer`.
update_writer ==
    /\ upd.pc = "read"
    /\ IF CanOpenWriter(sessions)
       THEN /\ sessions' = sessions \cup {"update"}
            /\ upd' = [upd EXCEPT !.pc = "writing"]
            /\ UNCHANGED <<call, ret>>
       ELSE /\ upd' = [upd EXCEPT !.pc = "done"]
            /\ call' = Call("update", WriteArg("update", TRUE))
            /\ ret' = Raise("LockError")
            /\ UNCHANGED sessions
    /\ UNCHANGED <<docs, pre, reader, oth, batch>>

\* update(): the body of the with-block and its exit: commit, or cancel when
\* the assignment to msg_dict raised.
update_exit ==
    /\ upd.pc = "writing"
    /\ docs' = UpdateWrite(docs, upd.msg_dict, upd.content)
    /\ ret' = IF upd.msg_dict = None THEN Raise("TypeError") ELSE Ok
    /\ sessions' = sessions \ {"update"}
    /\ upd' = [upd EXCEPT !.pc = "done",
                          !.existed = (searcher_document(docs, upd.url) # None)]
    /\ call' = Call("update", WriteArg("update", TRUE))
    /\ UNCHANGED <<pre, reader, oth, batch>>

\* Another caller's write call opens its writer, or fails with LockError.
OtherWriter(op, url, message) ==
    /\ oth.pc = "idle"
    /\ IF CanOpenWriter(sessions)
       THEN /\ sessions' = sessions \cup {"other"}
            /\ oth' = [pc |-> "open", op |-> op, url |-> url, message |-> message]
            /\ UNCHANGED <<call, ret>>
       ELSE /\ call' = Call(op, WriteArg("other", TRUE))
            /\ ret' = Raise("LockError")
            /\ UNCHANGED <<sessions, oth>>
    /\ UNCHANGED <<docs, pre, reader, upd, batch>>

\* Another caller's write call leaves its with-block: the session commits.
OtherExit(op, d) ==
    /\ oth.pc = "open" /\ oth.op = op
    /\ docs' = d
    /\ sessions' = sessions \ {"other"}
    /\ oth' = IdleOth
    /\ call' = Call(op, WriteArg("other", TRUE))
    /\ ret' = Ok
    /\ UNCHANGED <<pre, reader, upd, batch>>

\* delete(url): `with self.ix.writer() as writer`.
delete_writer(url) == OtherWriter("delete", url, None)

\* delete(url): writer.delete_by_term('url', url) and the exit of the block.
delete_exit == OtherExit("delete", writer_delete_by_term(docs, "url", oth.url))

\* add_document(message): `with self.ix.writer() as writer`.
add_writer(message) ==
    /\ Len(docs) < MaxWriteDocs
    /\ OtherWriter("add_document", message.url, Some(message))

\* add_document(message): writer.add_document and the exit of the block.
add_exit ==
    /\ oth.message # None
    /\ OtherExit("add_document", writer_add_document(docs, as_dict(oth.message[1])))

\* A caller opens a writer of its own to pass to add_document.
batch_writer ==
    /\ batch = None
    /\ CanOpenWriter(sessions)
    /\ sessions' = sessions \cup {"batch"}
    /\ batch' = Some(<< >>)
    /\ UNCHANGED <<docs, call, ret, pre, reader, upd, oth>>

\* add_document(message, writer): writer.add_document on the caller's
\* writer; the call neither opens nor commits a session.
add_document_writer(message) ==
    /\ batch # None
    /\ Len(batch[1]) < MaxBatch
    /\ Len(docs) + Len(batch[1]) < MaxWriteDocs
    /\ batch' = Some(writer_add_document(batch[1], as_dict(message)))
    /\ call' = Call("add_document", WriteArg("batch", FALSE))
    /\ ret' = Ok
    /\ UNCHANGED <<docs, pre, reader, sessions, upd, oth>>

\* The caller commits the writer it opened.
batch_commit ==
    /\ batch # None
    /\ docs' = docs \o batch[1]
    /\ sessions' = sessions \ {"batch"}
    /\ batch' = None
    /\ call' = Call("commit", WriteArg("batch", TRUE))
    /\ ret' = Ok
    /\ UNCHANGED <<pre, reader, upd, oth>>

NextWrite ==
    \/ \E content \in Contents, url \in Urls : update_read(content, url)
    \/ update_writer
    \/ update_exit
    \/ \E url \in Urls : delete_writer(url)
    \/ delete_exit
    \/ \E message \in ConcMessages : add_writer(message)
    \/ add_exit
    \/ batch_writer
    \/ \E message \in ConcMessages : add_document_writer(message)
    \/ batch_commit

SpecWrite == Init /\ [][NextWrite]_vars

(* ====================================================================== *)
(*                               claims                                   *)
(* ====================================================================== *)
\* The stored documents that carry the url, in document-number order.
Retrievable(d, url) == SelectSeq(d, LAMBDA doc : doc.url = url)

IsSearch == call.op = "search"

\* ceil(total / page_len)
PageCount(total, page_len) == (total + page_len - 1) \div page_len

\* C1: add with a url already present fails (DuplicateKey) and leaves the
\* index as it was, and in every reachable state at most one stored document
\* carries any given url.
C1_Uniqueness ==
    /\ (call.op = "add_document" /\ Retrievable(pre, call.arg.url) # << >>)
          => (ret.err = "DuplicateKey" /\ docs = pre)
    /\ \A u \in Urls : Len(Retrievable(docs, u)) <= 1

\* C2: after add(m) returns, for every term of m.content and every group
\* filter that is absent, empty or contains m.chat_id, some page of the
\* search for the term holds a hit whose url is m.url.
C2_AddThenSearch ==
    call.op = "add_document" =>
        \A t \in Range(Analyze(call.arg.content)), g \in InChats, l \in PageLens :
            (~Truthy(g) \/ call.arg.chat_id \in Range(g[1])) =>
                \E p \in 1..Len(docs) :
                    \E r \in SearchOutcomes(docs, t, g, l, p) :
                        /\ r.err = "ok"
                        /\ \E i \in 1..Len(r.hits) : r.hits[i].msg.url = call.arg.url

\* C3: a search with a non-empty group filter G returns only hits whose
\* chat_id is in G and counts every stored document that matches the text
\* query and whose chat_id is in G; with an empty or absent filter every
\* stored document that matches the text query is counted.
C3_GroupFilterScoping ==
    (IsSearch /\ call.arg.page_len >= 1 /\ call.arg.page_num >= 1) =>
        LET a == call.arg
            q == Parse(a.q_str)
            inG(doc) == ~Truthy(a.in_chats) \/ doc.chat_id \in Range(a.in_chats[1])
            expected == SelectSeq(pre, LAMBDA doc : QueryMatches(q, doc) /\ inG(doc))
        IN  /\ ret.err = "ok"
            /\ ret.total = Len(expected)
            /\ \A i \in 1..Len(ret.hits) : inG(ret.hits[i].msg)

\* C4 (as claimed): a search that returns T total matches with page length
\* L returns a non-empty page exactly for page_num in 1..ceil(T/L), the page
\* ceil(T/L) is flagged last, and a page_num past it returns an empty page
\* flagged last.
C4_PaginationAsClaimed ==
    (IsSearch /\ ret.err = "ok") =>
        LET p == call.arg.page_num
            pages == PageCount(ret.total, call.arg.page_len)
        IN  /\ (ret.hits # << >>) <=> (p <= pages)
            /\ (p = pages) => ret.is_last_page
            /\ (p > pages) => (ret.hits = << >> /\ ret.is_last_page)

\* C4 (amended): a search that returns T total matches with page length L
\* returns, for page_num in 1..ceil(T/L), the non-empty page_num-th slice of
\* at most L matches; is_last_page is true exactly when page_num >=
\* ceil(T/L); and a page_num past ceil(T/L) returns, without error, the same
\* hits as page ceil(T/L) (no hits only when T = 0).
C4_Pagination ==
    (IsSearch /\ ret.err = "ok") =>
        LET a == call.arg
            p == a.page_num
            l == a.page_len
            t == ret.total
            pages == PageCount(t, l)
            shown == Min(p, pages)
        IN  /\ ret.is_last_page <=> (p >= pages)
            /\ Len(ret.hits) = (IF t = 0 THEN 0 ELSE Min(l, t - (shown - 1) * l))
            /\ (p <= pages) => ret.hits # << >>
            /\ (p > pages /\ t > 0) =>
                  /\ ret.hits # << >>
                  /\ \E r \in SearchOutcomes(pre, a.q_str, a.in_chats, l, pages) :
                        r.err = "ok" /\ r.hits = ret.hits

C4_Witness ==
    /\ IsSearch /\ ret.err = "ok"
    /\ ret.total > 0
    /\ call.arg.page_num > PageCount(ret.total, call.arg.page_len)
    /\ PageCount(ret.total, call.arg.page_len) > 1

C6_UpdateMissingFails ==
    (call.op = "update" /\ Retrievable(pre, call.arg.url) = << >>) =>
        /\ ret.err = "TypeError"
        /\ docs = pre

C6_Witness ==
    /\ call.op = "update"
    /\ Retrievable(pre, call.arg.url) = << >>
    /\ pre # << >>

\* C7: after delete(url) returns, which it does without error, no search
\* (any query, filter, page length and page) returns a hit with the url, and
\* a delete of a url no stored document carries leaves the index unchanged.
C7_DeleteRemoves ==
    call.op = "delete" =>
        /\ ret.err = "ok"
        /\ \A q \in QueryStrings, g \in InChats, l \in PageLens, p \in PageNums :
              \A r \in SearchOutcomes(docs, q, g, l, p) :
                  \A i \in 1..Len(r.hits) : r.hits[i].msg.url # call.arg
        /\ Retrievable(docs, call.arg) = << >>
        /\ (Retrievable(pre, call.arg) = << >>) => docs = pre

C7_Witness ==
    /\ call.op = "delete"
    /\ Len(Retrievable(pre, call.arg)) = 2

\* C8: after clear the index holds no documents: retrieve_random_document
\* fails (EmptyIndex surfaces as the IndexError of random.choice) and every
\* search returns no hits and zero matches.
C8_Reset ==
    /\ call.op = "clear" =>
          /\ docs = << >>
          /\ SampleOutcomes(docs) = {Raise("IndexError")}
          /\ \A q \in QueryStrings, g \in InChats, l \in PageLens, p \in PageNums :
                \A r \in SearchOutcomes(docs, q, g, l, p) :
                    /\ r.hits = << >> /\ r.total = 0
                    /\ ~Truthy(g) => (r.err = "ok" /\ r.is_last_page)
    /\ (call.op = "retrieve_random_document" /\ pre = << >>) => ret.err = "IndexError"
    /\ (IsSearch /\ pre = << >>) => (ret.hits = << >> /\ ret.total = 0)

C8_Witness ==
    /\ call.op = "clear"
    /\ Len(pre) = MaxDocs

\* C10: the post_time values of the hits of every returned page are
\* non-increasing; with A(u1, t1, 'hello world') then B(u2, t2 > t1, 'hello
\* again') stored, search('hello', None, 10, 1) returns the hits [B, A],
\* total 2 and is_last_page true.
C10_Ordering ==
    /\ IsSearch =>
          \A i, j \in 1..Len(ret.hits) :
              i < j => ret.hits[i].msg.post_time >= ret.hits[j].msg.post_time
    /\ (IsSearch /\ pre = <<MsgA, MsgB>>
          /\ call.arg = SearchArg("hello", None, 10, 1)) =>
              /\ ret.err = "ok"
              /\ [i \in 1..Len(ret.hits) |-> ret.hits[i].msg] = <<MsgB, MsgA>>
              /\ ret.total = 2
              /\ ret.is_last_page

C10_Witness ==
    /\ IsSearch /\ pre = <<MsgA, MsgB>>
    /\ call.arg = SearchArg("hello", None, 10, 1)
    /\ Len(ret.hits) = 2

\* C9: a search or retrieve_random_document call returns what the index
\* held when the call opened its searcher: hits, total and is_last_page of a
\* search are those of that one state, and the sampled message is one stored
\* in it, whatever commits while the call runs; and while a searcher is open
\* writer sessions can still commit.
C9_SnapshotIsolation ==
    /\ (rpc = "idle" /\ call.op = "search") =>
          ret \in SearchOutcomes(pre, call.arg.q_str, call.arg.in_chats,
                                 call.arg.page_len, call.arg.page_num)
    /\ (rpc = "idle" /\ call.op = "retrieve_random_document") =>
          ret \in SampleOutcomes(pre)
    /\ rpc = "open" =>
          /\ snap = pre
          /\ ENABLED (\E url \in Urls : commit_delete(url))
          /\ ENABLED (\E content \in Contents, url \in Urls : commit_update(content, url))
          /\ Len(docs) < MaxConcDocs =>
                ENABLED (\E message \in ConcMessages : commit_add_document(message))

\* A search returned after a commit changed, while its searcher was open,
\* what the same search finds.
C9_Witness ==
    /\ rpc = "idle" /\ call.op = "search" /\ raced
    /\ ret.err = "ok" /\ ret.total > 0
    /\ ret \notin SearchOutcomes(docs, call.arg.q_str, call.arg.in_chats,
                                 call.arg.page_len, call.arg.page_num)

\* C11: a search with a page_len that is not positive or a page_num below 1
\* fails (InvalidPage surfaces as the ValueError of search_page) and returns
\* no result.
C11_InvalidPage ==
    (IsSearch /\ (call.arg.page_len < 1 \/ call.arg.page_num < 1)) =>
        ret = Raise("ValueError")

C11_Witness ==
    /\ IsSearch
    /\ call.arg.page_len < 1 /\ call.arg.page_num < 1
    /\ call.arg.page_len * call.arg.page_num >= 1
    /\ pre # << >>

\* C12: constructing the Indexer without from_scratch on a location that
\* holds an index leaves every stored document unchanged, opening again
\* yields the same index, and a construction changes the stored documents
\* only when from_scratch was passed.
C12_OpenNonDestructive ==
    call.op = "__init__" =>
        /\ ret = Ok
        /\ (docs # pre) => call.arg
        /\ (~call.arg) =>
              /\ docs = pre
              /\ open_or_create(Some(docs), FALSE) = docs

C12_Witness ==
    /\ call.op = "__init__" /\ ~call.arg
    /\ Len(pre) = MaxDocs

WriteOps == {"add_document", "update", "delete"}

\* The sessions that are open belong to callers that are inside a write.
SessionsOwned ==
    /\ ("update" \in sessions) <=> (upd.pc = "writing")
    /\ ("other" \in sessions) <=> (oth.pc = "open")
    /\ ("batch" \in sessions) <=> (batch # None)

\* A step in which a write call returns: update leaves its last step,
\* another caller's delete or add_document leaves its with-block or fails to
\* open its writer, or add_document returns from adding to a caller's writer.
WriteCallReturns ==
    \/ upd.pc # "done" /\ upd'.pc = "done"
    \/ oth.pc = "open" /\ oth'.pc = "idle"
    \/ /\ oth.pc = "idle" /\ oth'.pc = "idle"
       /\ <<call, ret>>' # <<call, ret>>
       /\ call'.op \in WriteOps
       /\ call'.arg.session = "other"
    \/ batch # None /\ batch' # None /\ batch' # batch

\* C13 as stated: every write call (add, update, delete) acquires, mutates
\* and commits or aborts its write session before it returns, so the session
\* a write call used is not open when the call returns, and at most one
\* write session is open at any time.
C13_ScopedWritesAsClaimed ==
    /\ [](Cardinality(sessions) <= 1)
    /\ [][WriteCallReturns =>
             /\ call'.op \in WriteOps
             /\ call'.arg.session \notin sessions']_vars

\* C13 (amended): update, delete and add_document without a writer argument
\* open their own write session and have committed or aborted it when they
\* return; add_document given a caller's writer adds to that session and
\* returns with it still open and the document pending, not committed; at
\* most one write session is open against the index at any time, and only
\* callers inside a write hold one.
C13_ScopedWrites ==
    /\ [](Cardinality(sessions) <= 1)
    /\ []SessionsOwned
    /\ [][WriteCallReturns =>
             /\ call'.op \in WriteOps
             /\ call'.arg.own => call'.arg.session \notin sessions'
             /\ ~call'.arg.own =>
                   /\ call'.op = "add_document"
                   /\ call'.arg.session \in sessions'
                   /\ sessions' = sessions
                   /\ docs' = docs
                   /\ Len(batch'[1]) = Len(batch[1]) + 1]_vars

C13_Witness ==
    /\ call.op = "add_document"
    /\ ~call.arg.own
    /\ "batch" \in sessions
    /\ upd.pc = "read"
    /\ docs # << >>

\* C14: while update(content, url) runs on a stored url and no other caller
\* commits, a reader that looks up url finds exactly one document, the old
\* version before the commit and the new version after it; never none, two,
\* or a mixture of fields.
C14_AtomicReplace ==
    /\ (upd.pc \in {"read", "writing"} /\ upd.msg_dict # None /\ docs = pre) =>
          Retrievable(docs, upd.url) = << upd.msg_dict[1] >>
    /\ (upd.pc = "done" /\ call.op = "update" /\ ret.err = "ok") =>
          Retrievable(docs, upd.url) = << UpdatedDoc(upd.msg_dict[1], upd.content) >>

\* C15: update does not undo a concurrent delete: when no document with the
\* url is stored at the moment update's write session commits (a delete
\* committed after update read the document), no document with that url is
\* stored after update returns.
C15_UpdateKeepsDelete ==
    (upd.pc = "done" /\ call.op = "update" /\ ret.err # "LockError" /\ ~upd.existed) =>
        Retrievable(docs, upd.url) = << >>

\* The url a write call of Spec targets.
Target ==
    IF call.op = "add_document" THEN call.arg.url
    ELSE IF call.op = "update" THEN call.arg.url
    ELSE call.arg

\* The stored documents that carry another url, in index order.
Others(d, url) == SelectSeq(d, LAMBDA doc : doc.url # url)

\* C16: add_document, update and delete change only documents that carry the
\* targeted url: every stored document with another url remains stored with
\* the same content, chat_id and post_time.
C16_Frame ==
    call.op \in WriteOps => Others(docs, Target) = Others(pre, Target)

C16_Witness ==
    /\ call.op = "update"
    /\ ret.err = "ok"
    /\ docs # pre
    /\ Others(pre, Target) # << >>

====
